---- MODULE Spec2Model ----
(***************************************************************************)
(* Model of src/app.py: the in-memory job registry (download_status), the  *)
(* worker routine download_soundcloud_track_async, the request handlers    *)
(* that read and write the registry, and the file clean-up thread.         *)
(*                                                                         *)
(* Python values are represented as follows.                               *)
(*   dict              a function; `k in d` is k \in DOMAIN d               *)
(*   str               a tuple of the pieces of text the code looks at (one *)
(*                     character each in a thumbnail url), or a TLA+ string *)
(*                     where the code never looks inside it                 *)
(*   None              the tuple None, or "null" in a JSON boolean field    *)
(*   bool in a reply   "true" / "false"                                     *)
(***************************************************************************)
EXTENDS Integers, Sequences, FiniteSets, Bags, TLC

VARIABLES
    download_status,  \* app.py:19   the registry: track_id -> dict
    files,            \* DOWNLOAD_DIR: file name -> age (in hours, saturating)
    workers,          \* bag of running executions of download_soundcloud_track_async
    reply,            \* what the request handler of the last step returned (NoReply otherwise)
    execs,            \* history: executions of the worker routine begun per track_id
    hist,             \* history: progress values taken by the entry of a track_id driven by one execution
    cleanup_thread    \* app.py:40  the clean-up thread: where it is in its loop, and
                      \* history: what its last pass did

vars == <<download_status, files, workers, reply, execs, hist, cleanup_thread>>

----------------------------------------------------------------------------
(* Bounds of the model and the inputs it draws *)

\* executions of the worker routine begun for one track id
MaxExec == 2

\* track_id values of the requests
TrackIds == {"a", "b"}

\* the track id of the requests where the jobs of one track id are looked at
JobIds == {"a"}

\* url values of the requests, as the pieces of text the code looks for in
\* them: missing, of another site, of another site with the text
\* soundcloud.com in its path, a SoundCloud url
NoUrl == <<>>
OtherUrl == <<"https://", "example.com", "/t">>
MentionUrl == <<"https://", "example.com", "/", "soundcloud.com">>
SoundCloudUrl == <<"https://", "soundcloud.com", "/t">>
SoundCloudUrls == {SoundCloudUrl}
Urls == {NoUrl, OtherUrl} \cup SoundCloudUrls

\* the start-download requests: url missing, track_id missing, url of another
\* site, url of another site that mentions soundcloud.com, a SoundCloud url
StartRequests(ids) ==
    {<<url, track_id>> : url \in {NoUrl, OtherUrl, MentionUrl, SoundCloudUrl}, track_id \in ids}
    \cup {<<SoundCloudUrl, "">>}

\* what the Extractor reports for a track: info['title'], info.get('thumbnail')
Titles == {"Song"}
UrlPng == <<"x", ".", "P", "N", "G", "?", "s">>
Thumbnails == {<<"None">>, UrlPng}

\* str(e) of the failures of the Extractor
ErrMsgs == {"ERROR: extraction failed"}

\* str(e) of info.get(...) when extract_info has returned None
InfoErrMsgs == {"'NoneType' object has no attribute 'get'"}

\* cover_ext values of a cover request: the one the metadata fetch gives for UrlPng
ReqExts == {<<"P","N","G">>}

----------------------------------------------------------------------------
(* Python values *)

None == <<"None">>

JsonBool(b) == IF b THEN "true" ELSE "false"

\* dict.get(key, default)
Get(d, key, default) == IF key \in DOMAIN d THEN d[key] ELSE default

\* d[key] = value, on a dict
Put(d, key, value) == [k \in DOMAIN d \cup {key} |-> IF k = key THEN value ELSE d[k]]

\* str.lower() on the characters the model uses
LowerChar(c) ==
    CASE c = "P" -> "p"
      [] c = "N" -> "n"
      [] c = "G" -> "g"
      [] c = "J" -> "j"
      [] c = "E" -> "e"
      [] c = "W" -> "w"
      [] c = "B" -> "b"
      [] OTHER -> c

Lower(s) == [i \in 1..Len(s) |-> LowerChar(s[i])]

\* s.split(sep)[-1]: what follows the last sep (all of s when there is none)
SplitLast(s, sep) ==
    IF \E i \in 1..Len(s) : s[i] = sep
    THEN LET i == CHOOSE k \in 1..Len(s) : s[k] = sep /\ \A m \in (k+1)..Len(s) : s[m] # sep
         IN  SubSeq(s, i + 1, Len(s))
    ELSE s

\* s.split(sep)[0]: what precedes the first sep (all of s when there is none)
SplitFirst(s, sep) ==
    IF \E i \in 1..Len(s) : s[i] = sep
    THEN LET i == CHOOSE k \in 1..Len(s) : s[k] = sep /\ \A m \in 1..(k-1) : s[m] # sep
         IN  SubSeq(s, 1, i - 1)
    ELSE s

RecognisedExts == { <<"j","p","g">>, <<"j","p","e","g">>, <<"p","n","g">>, <<"w","e","b","p">> }

\* variant of InferCoverExt that gives the extension in lower case;
\* C17_InferKeepsCase rejects it
InferCoverExtLowered(thumbnail_url) ==
    LET img_ext == SplitFirst(SplitLast(thumbnail_url, "."), "?")
    IN  IF Lower(img_ext) \in RecognisedExts THEN Lower(img_ext) ELSE <<"j","p","g">>

\* app.py:82-86
InferCoverExt(thumbnail_url) ==
    LET img_ext == SplitFirst(SplitLast(thumbnail_url, "."), "?")
    IN  IF Lower(img_ext) \in RecognisedExts THEN img_ext ELSE <<"j","p","g">>

----------------------------------------------------------------------------
(* File Store names *)

Mp3Ext == <<"m","p","3">>

\* os.path.join(DOWNLOAD_DIR, f"{track_id}.mp3")
Mp3Path(track_id) == <<track_id, "", Mp3Ext>>

\* os.path.join(DOWNLOAD_DIR, f"{track_id}_cover.{cover_ext}")
CoverPath(track_id, cover_ext) == <<track_id, "_cover", cover_ext>>

\* os.path.exists
Exists(fs, path) == path \in DOMAIN fs

\* a file is created or rewritten now: its ctime is now
WriteFile(fs, path) == Put(fs, path, 0)

RemoveFile(fs, path) == [p \in DOMAIN fs \ {path} |-> fs[p]]

\* a directory inside DOWNLOAD_DIR (the Extractor makes one for a track_id
\* with a / in it)
SubDir == <<"sub", "", <<>>>>

\* os.path.isfile
IsFile(path) == path # SubDir

----------------------------------------------------------------------------
(* Program constants *)

\* app.py:31  timedelta(hours=1), in hours
CleanupAge == 1

\* app.py:920, 969  max_wait = 30, in turns of the wait loop (a second each)
max_wait == 30

----------------------------------------------------------------------------
(* State *)

NoReply == [kind |-> "none"]

\* no reply is on its way to a client
Idle == reply = NoReply

\* a running execution of download_soundcloud_track_async and, for the
\* synchronous fallback, of the handler that called it
Worker(track_id, mode, req_ext) ==
    [track_id |-> track_id, mode |-> mode, pc |-> "L47", title |-> "",
     thumbnail_url |-> None, cover_path |-> None, cover_ext |-> None,
     req_ext |-> req_ext, wait_time |-> 0]

Live == BagToSet(workers)

Swap(w, w2) == workers' = (workers (-) SetToBag({w})) (+) SetToBag({w2})

Drop(w) == workers' = workers (-) SetToBag({w})

Spawn(w) == workers' = workers (+) SetToBag({w})

\* history: one more execution of the routine for track_id begins
Begun(track_id) == [execs EXCEPT ![track_id] = @ + 1]

\* history: the progress values of an entry driven by one execution
Seen(h, n, track_id, progress) ==
    [h EXCEPT ![track_id] =
        IF n[track_id] # 1 THEN <<>>
        ELSE IF @ # <<>> /\ @[Len(@)] = progress THEN @
        ELSE Append(@, progress)]

\* download_status[track_id] = entry
SetEntry(track_id, entry) ==
    /\ download_status' = Put(download_status, track_id, entry)
    /\ hist' = Seen(hist, execs', track_id, entry.progress)

\* variant of SetProgress that writes the progress into every entry of the
\* registry; C9_JobsIndependent rejects it
SetProgressOfAll(track_id, progress) ==
    /\ download_status' = [t \in DOMAIN download_status |->
                              [download_status[t] EXCEPT !.progress = progress]]
    /\ hist' = Seen(hist, execs', track_id, progress)

\* download_status[track_id]['progress'] = progress
SetProgress(track_id, progress) ==
    /\ download_status' = [download_status EXCEPT ![track_id] = [@ EXCEPT !.progress = progress]]
    /\ hist' = Seen(hist, execs', track_id, progress)

\* {}
EmptyDict == [k \in {} |-> 0]

\* the clean-up thread between two passes (app.py:37); its position is kept
\* only where the loop itself is looked at
Sleeping == [pc |-> "sleep", listed |-> FALSE, examined |-> {}]

Init ==
    /\ download_status = EmptyDict
    /\ files = EmptyDict
    /\ workers = EmptyBag
    /\ reply = NoReply
    /\ execs = [t \in TrackIds |-> 0]
    /\ hist = [t \in TrackIds |-> <<>>]
    /\ cleanup_thread = Sleeping

----------------------------------------------------------------------------
(* download_soundcloud_track_async, app.py:43-124 *)

\* app.py:47
DownloadingEntry == [status |-> "downloading", progress |-> 0]

\* app.py:103-113
CompletedEntry(w, fs) ==
    LET mp3_path == Mp3Path(w.track_id)
    IN  [status |-> "completed", progress |-> 100, title |-> w.title,
         mp3_path |-> mp3_path, cover_path |-> w.cover_path,
         cover_ext |-> w.cover_ext, thumbnail_url |-> w.thumbnail_url,
         mp3_available |-> JsonBool(Exists(fs, mp3_path)),
         cover_available |-> IF w.cover_path = None THEN "null"
                             ELSE JsonBool(Exists(fs, w.cover_path))]

\* app.py:120-124
ErrorEntry(msg) == [status |-> "error", progress |-> 0, error |-> msg]

\* where the routine returns to: the thread ends, or the handler that called
\* it goes on to its wait loop (app.py:919, 968)
Returned(w) ==
    IF w.mode = "async" THEN Drop(w)
    ELSE Swap(w, [Worker(w.track_id, w.mode, w.req_ext) EXCEPT !.pc = "wait"])

\* app.py:47  download_status[track_id] = {'status': 'downloading', 'progress': 0}
WorkerBegin(w) ==
    /\ Idle
    /\ w.pc = "L47"
    /\ UNCHANGED execs
    /\ SetEntry(w.track_id, DownloadingEntry)
    /\ Swap(w, [w EXCEPT !.pc = "L64"])
    /\ UNCHANGED <<files, reply>>
    /\ UNCHANGED cleanup_thread

\* variant of WorkerBeforeExtract that writes the checkpoint of line 69 before
\* the Extractor is called; C23_CheckpointsAroundExtract rejects it
WorkerBeforeExtractAt60(w) ==
    /\ Idle
    /\ w.pc = "L64"
    /\ UNCHANGED execs
    /\ SetProgress(w.track_id, 60)
    /\ Swap(w, [w EXCEPT !.pc = "L67"])
    /\ UNCHANGED <<files, reply>>
    /\ UNCHANGED cleanup_thread

\* app.py:64  download_status[track_id]['progress'] = 25
WorkerBeforeExtract(w) ==
    /\ Idle
    /\ w.pc = "L64"
    /\ UNCHANGED execs
    /\ SetProgress(w.track_id, 25)
    /\ Swap(w, [w EXCEPT !.pc = "L67"])
    /\ UNCHANGED <<files, reply>>
    /\ UNCHANGED cleanup_thread

\* app.py:66-67  ydl.extract_info(url, download=True) returns: the mp3 is written
\* (what it returned is looked at in lines 74-75)
WorkerExtractOk(w) ==
    /\ Idle
    /\ w.pc = "L67"
    /\ Swap(w, [w EXCEPT !.pc = "L69"])
    /\ files' = WriteFile(files, Mp3Path(w.track_id))
    /\ UNCHANGED <<download_status, reply, execs, hist>>
    /\ UNCHANGED cleanup_thread

\* variant of WorkerExtractFails without the try statement: the failure ends
\* the thread or reaches the handler; C11_FailureCaught rejects it
WorkerExtractFailsUncaught(w) ==
    /\ Idle
    /\ w.pc = "L67"
    /\ Drop(w)
    /\ UNCHANGED <<download_status, files, reply, execs, hist>>
    /\ UNCHANGED cleanup_thread

\* app.py:66-67, 118-124  ydl.extract_info raises: the except clause records it
WorkerExtractFails(w) ==
    /\ Idle
    /\ w.pc = "L67"
    /\ UNCHANGED execs
    /\ \E msg \in ErrMsgs : SetEntry(w.track_id, ErrorEntry(msg))
    /\ Returned(w)
    /\ UNCHANGED <<files, reply>>
    /\ UNCHANGED cleanup_thread

\* app.py:69  download_status[track_id]['progress'] = 60
WorkerAfterExtract(w) ==
    /\ Idle
    /\ w.pc = "L69"
    /\ UNCHANGED execs
    /\ SetProgress(w.track_id, 60)
    /\ Swap(w, [w EXCEPT !.pc = "L74"])
    /\ UNCHANGED <<files, reply>>
    /\ UNCHANGED cleanup_thread

\* app.py:74-80  title = info.get('title', ...); thumbnail_url = info.get('thumbnail');
\* if thumbnail_url:
WorkerReadInfo(w) ==
    /\ Idle
    /\ w.pc = "L74"
    /\ \E title \in Titles, thumbnail_url \in Thumbnails :
          Swap(w, [w EXCEPT !.pc = IF thumbnail_url # None THEN "L89" ELSE "L103",
                             !.title = title, !.thumbnail_url = thumbnail_url])
    /\ UNCHANGED <<download_status, files, reply, execs, hist>>
    /\ UNCHANGED cleanup_thread

\* app.py:74, 118-124  extract_info has returned None: info.get raises, the
\* except clause records it
WorkerReadInfoFails(w) ==
    /\ Idle
    /\ w.pc = "L74"
    /\ UNCHANGED execs
    /\ \E msg \in InfoErrMsgs : SetEntry(w.track_id, ErrorEntry(msg))
    /\ Returned(w)
    /\ UNCHANGED <<files, reply>>
    /\ UNCHANGED cleanup_thread

\* app.py:82-93  the cover is fetched and written
WorkerCoverOk(w) ==
    /\ Idle
    /\ w.pc = "L89"
    /\ LET cover_ext == InferCoverExt(w.thumbnail_url)
           cover_path == CoverPath(w.track_id, cover_ext)
       IN  /\ files' = WriteFile(files, cover_path)
           /\ Swap(w, [w EXCEPT !.pc = "L95", !.cover_ext = cover_ext, !.cover_path = cover_path])
    /\ UNCHANGED <<download_status, reply, execs, hist>>
    /\ UNCHANGED cleanup_thread

\* variant of WorkerCoverFails in which the routine goes on to the progress
\* update of a fetched cover; C5_ProgressSequence rejects it
WorkerCoverFailsThen85(w) ==
    /\ Idle
    /\ w.pc = "L89"
    /\ Swap(w, [w EXCEPT !.pc = "L95", !.cover_ext = None, !.cover_path = None])
    /\ UNCHANGED <<download_status, files, reply, execs, hist>>
    /\ UNCHANGED cleanup_thread

\* variant of WorkerCoverFails without the inner try: the failure reaches the
\* except clause of the routine; C8_CoverFailureIsolated rejects it
WorkerCoverFailsEscalates(w) ==
    /\ Idle
    /\ w.pc = "L89"
    /\ UNCHANGED execs
    /\ \E msg \in ErrMsgs : SetEntry(w.track_id, ErrorEntry(msg))
    /\ Returned(w)
    /\ UNCHANGED <<files, reply>>
    /\ UNCHANGED cleanup_thread

\* app.py:89-90, 96-99  requests.get or raise_for_status raises (wrote = FALSE), or
\* app.py:92-93, 96-99  open succeeded and the write raises (wrote = TRUE)
WorkerCoverFails(w) ==
    /\ Idle
    /\ w.pc = "L89"
    /\ \E wrote \in BOOLEAN :
          files' = IF wrote
                   THEN WriteFile(files, CoverPath(w.track_id, InferCoverExt(w.thumbnail_url)))
                   ELSE files
    /\ Swap(w, [w EXCEPT !.pc = "L103", !.cover_ext = None, !.cover_path = None])
    /\ UNCHANGED <<download_status, reply, execs, hist>>
    /\ UNCHANGED cleanup_thread

\* app.py:95  download_status[track_id]['progress'] = 85
WorkerAfterCover(w) ==
    /\ Idle
    /\ w.pc = "L95"
    /\ UNCHANGED execs
    /\ SetProgress(w.track_id, 85)
    /\ Swap(w, [w EXCEPT !.pc = "L103"])
    /\ UNCHANGED <<files, reply>>
    /\ UNCHANGED cleanup_thread

\* variant of WorkerComplete in which the routine returns without recording
\* the end of the job; C12_EventuallyTerminal rejects it
WorkerCompleteUnrecorded(w) ==
    /\ Idle
    /\ w.pc = "L103"
    /\ Returned(w)
    /\ UNCHANGED <<download_status, files, reply, execs, hist>>
    /\ UNCHANGED cleanup_thread

\* app.py:101-113  download_status[track_id] = {'status': 'completed', ...}
WorkerComplete(w) ==
    /\ Idle
    /\ w.pc = "L103"
    /\ UNCHANGED execs
    /\ SetEntry(w.track_id, CompletedEntry(w, files))
    /\ Returned(w)
    /\ UNCHANGED <<files, reply>>
    /\ UNCHANGED cleanup_thread

WorkerStep(w) ==
    \/ WorkerBegin(w)
    \/ WorkerBeforeExtract(w)
    \/ WorkerExtractOk(w)
    \/ WorkerExtractFails(w)
    \/ WorkerAfterExtract(w)
    \/ WorkerReadInfo(w)
    \/ WorkerReadInfoFails(w)
    \/ WorkerCoverOk(w)
    \/ WorkerCoverFails(w)
    \/ WorkerAfterCover(w)
    \/ WorkerComplete(w)

----------------------------------------------------------------------------
(* Request handlers, app.py:826-983 *)

Reply(kind, track_id, code, body) ==
    [kind |-> kind, track_id |-> track_id, code |-> code, body |-> body]

\* `text in url`, for a text that is one of the pieces of the url
Contains(url, text) == \E i \in 1..Len(url) : url[i] = text

\* not (`not url or 'soundcloud.com' not in url`)
ValidUrl(url) == url # NoUrl /\ Contains(url, "soundcloud.com")

\* what start_download returns, with the request it answers
StartReply(url, track_id, body) ==
    [kind |-> "start_download", track_id |-> track_id, url |-> url, code |-> 200, body |-> body]

\* app.py:841
StartingEntry == [status |-> "starting", progress |-> 0]

\* app.py:826-853  POST /start_download
start_download(url, track_id) ==
    /\ Idle
    /\ IF url = NoUrl \/ track_id = ""
       THEN /\ reply' = StartReply(url, track_id,
                              [success |-> FALSE, error |-> "URL and track_id are required"])
            /\ UNCHANGED <<download_status, files, workers, execs, hist>>
       ELSE IF ~ValidUrl(url)
       THEN /\ reply' = StartReply(url, track_id,
                              [success |-> FALSE, error |-> "Please provide a valid SoundCloud URL"])
            /\ UNCHANGED <<download_status, files, workers, execs, hist>>
       ELSE /\ execs[track_id] < MaxExec
            /\ execs' = Begun(track_id)
            /\ SetEntry(track_id, StartingEntry)
            /\ Spawn(Worker(track_id, "async", None))
            /\ reply' = StartReply(url, track_id,
                              [success |-> TRUE, track_id |-> track_id])
            /\ UNCHANGED files
    /\ UNCHANGED cleanup_thread

\* variant of ProgressPayload that answers for an unknown track id as for a
\* job just accepted; C7_UnknownIsNotFound rejects it
ProgressPayloadDefaulting(ds, fs, track_id) ==
    IF track_id \notin DOMAIN ds
    THEN [status |-> "starting", progress |-> 0]
    ELSE ds[track_id]

\* variant of ProgressPayload that reports the availability flags as the
\* worker stored them; C13_AvailabilityRechecked rejects it
ProgressPayloadStored(ds, fs, track_id) ==
    IF track_id \notin DOMAIN ds
    THEN [status |-> "not_found", progress |-> 0]
    ELSE ds[track_id]

\* variant of ProgressPayload that answers for an unknown track id with the
\* status alone; C21_PollWellFormed rejects it
ProgressPayloadBare(ds, fs, track_id) ==
    IF track_id \notin DOMAIN ds
    THEN [status |-> "not_found"]
    ELSE ds[track_id]

\* app.py:859-872  the payload of GET /download_progress/<track_id>
ProgressPayload(ds, fs, track_id) ==
    IF track_id \notin DOMAIN ds
    THEN [status |-> "not_found", progress |-> 0]
    ELSE LET status_data == ds[track_id]
         IN  IF Get(status_data, "status", None) = "completed"
             THEN LET cover_path == Get(status_data, "cover_path", None)
                  IN  [status_data EXCEPT
                         !.mp3_available = JsonBool(Exists(fs, Mp3Path(track_id))),
                         !.cover_available = IF cover_path = None THEN "null"
                                             ELSE JsonBool(Exists(fs, cover_path))]
             ELSE status_data

\* variant of download_progress that recomputes the availability flags in the
\* entry itself instead of a copy of it; C28_PollChangesNothing rejects it
download_progressInPlace(track_id) ==
    /\ Idle
    /\ reply' = Reply("download_progress", track_id, 200,
                      ProgressPayload(download_status, files, track_id))
    /\ download_status' = IF track_id \in DOMAIN download_status
                          THEN Put(download_status, track_id,
                                   ProgressPayload(download_status, files, track_id))
                          ELSE download_status
    /\ UNCHANGED <<files, workers, execs, hist>>
    /\ UNCHANGED cleanup_thread

\* app.py:855-874  GET /download_progress/<track_id>
download_progress(track_id) ==
    /\ Idle
    /\ reply' = Reply("download_progress", track_id, 200,
                      ProgressPayload(download_status, files, track_id))
    /\ UNCHANGED <<download_status, files, workers, execs, hist>>
    /\ UNCHANGED cleanup_thread

\* variant of MetadataCoverExt that gives the extension in lower case;
\* C26_NamesAgree rejects it
MetadataCoverExtLowered(thumbnail_url) ==
    IF thumbnail_url = None THEN None
    ELSE LET img_ext == SplitFirst(SplitLast(thumbnail_url, "."), "?")
         IN  IF Lower(img_ext) \in RecognisedExts THEN Lower(img_ext) ELSE <<"j","p","g">>

\* app.py:139-145  the cover extension of the metadata fetch
MetadataCoverExt(thumbnail_url) ==
    IF thumbnail_url = None THEN None
    ELSE LET img_ext == SplitFirst(SplitLast(thumbnail_url, "."), "?")
         IN  IF Lower(img_ext) \in RecognisedExts THEN img_ext ELSE <<"j","p","g">>

\* app.py:126-156  what fetch_soundcloud_metadata returns: extract_info gives
\* a title and a thumbnail, or it raises, or it gives None and info.get raises
MetadataResults ==
    {[success |-> TRUE, title |-> title, thumbnail_url |-> thumbnail_url,
      cover_ext |-> MetadataCoverExt(thumbnail_url)] :
        title \in Titles, thumbnail_url \in Thumbnails}
    \cup {[success |-> FALSE, error |-> msg] : msg \in ErrMsgs \cup InfoErrMsgs}

\* variant of download that enters the track id it returns into the registry;
\* C19_MetadataFrame rejects it
downloadRegistering(url, track_id) ==
    /\ Idle
    /\ ValidUrl(url)
    /\ \E result \in MetadataResults :
          /\ result.success
          /\ reply' = Reply("download", "", 200,
                            [success |-> TRUE, track_id |-> track_id,
                             title |-> result.title, cover_url |-> result.thumbnail_url,
                             cover_ext |-> result.cover_ext, original_url |-> url])
    /\ download_status' = Put(download_status, track_id, StartingEntry)
    /\ UNCHANGED <<files, workers, execs, hist>>
    /\ UNCHANGED cleanup_thread

\* app.py:795-824  POST /download; track_id is what str(uuid.uuid4())[:8] gives
download(url, track_id) ==
    /\ Idle
    /\ IF url = NoUrl
       THEN reply' = Reply("download", "", 200, [success |-> FALSE, error |-> "URL is required"])
       ELSE IF ~Contains(url, "soundcloud.com")
       THEN reply' = Reply("download", "", 200,
                           [success |-> FALSE, error |-> "Please provide a valid SoundCloud URL"])
       ELSE \E result \in MetadataResults :
               reply' = Reply("download", "", 200,
                              IF result.success
                              THEN [success |-> TRUE, track_id |-> track_id,
                                    title |-> result.title, cover_url |-> result.thumbnail_url,
                                    cover_ext |-> result.cover_ext, original_url |-> url]
                              ELSE [success |-> FALSE, error |-> result.error])
    /\ UNCHANGED <<download_status, files, workers, execs, hist>>
    /\ UNCHANGED cleanup_thread

\* variant of Retrieve that answers 202 for an entry in starting as for one in
\* downloading; C18_RetrievalFallsBack rejects it
RetrieveWaitsForStarting(kind, url, track_id, path, req_ext) ==
    /\ Idle
    /\ IF ~ValidUrl(url)
       THEN /\ reply' = Reply(kind, track_id, 400, [error |-> "Missing or invalid url parameter"])
            /\ UNCHANGED <<download_status, files, workers, execs, hist>>
       ELSE IF Exists(files, path)
       THEN /\ reply' = Reply(kind, track_id, 200, [file |-> path])
            /\ UNCHANGED <<download_status, files, workers, execs, hist>>
       ELSE IF /\ track_id \in DOMAIN download_status
               /\ Get(download_status[track_id], "status", None) \in {"starting", "downloading"}
       THEN /\ reply' = Reply(kind, track_id, 202,
                              [error |-> "Download still in progress. Please wait."])
            /\ UNCHANGED <<download_status, files, workers, execs, hist>>
       ELSE IF /\ track_id \in DOMAIN download_status
               /\ Get(download_status[track_id], "status", None) = "error"
       THEN /\ reply' = Reply(kind, track_id, 500,
                              [error |-> Get(download_status[track_id], "error", "Download failed")])
            /\ UNCHANGED <<download_status, files, workers, execs, hist>>
       ELSE /\ execs[track_id] < MaxExec
            /\ execs' = Begun(track_id)
            /\ Spawn(Worker(track_id, kind, req_ext))
            /\ UNCHANGED <<download_status, files, reply, hist>>
    /\ UNCHANGED cleanup_thread

\* app.py:892-917 and 940-966: a file request up to the point where the
\* handler returns or calls the worker routine itself
Retrieve(kind, url, track_id, path, req_ext) ==
    /\ Idle
    /\ IF ~ValidUrl(url)
       THEN /\ reply' = Reply(kind, track_id, 400, [error |-> "Missing or invalid url parameter"])
            /\ UNCHANGED <<download_status, files, workers, execs, hist>>
       ELSE IF Exists(files, path)
       THEN /\ reply' = Reply(kind, track_id, 200, [file |-> path])
            /\ UNCHANGED <<download_status, files, workers, execs, hist>>
       ELSE IF /\ track_id \in DOMAIN download_status
               /\ Get(download_status[track_id], "status", None) = "downloading"
       THEN /\ reply' = Reply(kind, track_id, 202,
                              [error |-> "Download still in progress. Please wait."])
            /\ UNCHANGED <<download_status, files, workers, execs, hist>>
       ELSE IF /\ track_id \in DOMAIN download_status
               /\ Get(download_status[track_id], "status", None) = "error"
       THEN /\ reply' = Reply(kind, track_id, 500,
                              [error |-> Get(download_status[track_id], "error", "Download failed")])
            /\ UNCHANGED <<download_status, files, workers, execs, hist>>
       ELSE /\ execs[track_id] < MaxExec
            /\ execs' = Begun(track_id)
            /\ Spawn(Worker(track_id, kind, req_ext))
            /\ UNCHANGED <<download_status, files, reply, hist>>
    /\ UNCHANGED cleanup_thread

\* app.py:888-917  GET /download_mp3/<track_id>?url=
download_mp3(url, track_id) ==
    Retrieve("mp3", url, track_id, Mp3Path(track_id), None)

\* app.py:936-966  GET /download_cover/<track_id>?url=&cover_ext=
download_cover(url, track_id, cover_ext) ==
    Retrieve("cover", url, track_id, CoverPath(track_id, cover_ext), cover_ext)

\* app.py:919-927 and 968-976: the wait loop of the handler whose call of the
\* worker routine has returned. A turn that does not find the file sleeps and
\* changes nothing but wait_time, and no other thread is timed against the
\* loop, so wait_time is not kept: the handler either finds the file at some
\* turn (send_file) or finds it at none of its max_wait turns (408).
WaitLoop(w) ==
    /\ Idle
    /\ w.pc = "wait"
    /\ LET path == IF w.mode = "mp3" THEN Mp3Path(w.track_id)
                   ELSE CoverPath(w.track_id, w.req_ext)
       IN  reply' = IF Exists(files, path)
                    THEN Reply(w.mode, w.track_id, 200, [file |-> path])
                    ELSE Reply(w.mode, w.track_id, 408,
                               [error |-> IF w.mode = "mp3" THEN "Download timeout"
                                          ELSE "Cover download timeout"])
    /\ Drop(w)
    /\ UNCHANGED <<download_status, files, execs, hist>>
    /\ UNCHANGED cleanup_thread

\* app.py:928-930, 977-979  the reply of the except clause around the
\* fallback (no statement of the try body raises in the model)
FailedReply(w) ==
    Reply(w.mode, w.track_id, 500,
          [error |-> IF w.mode = "mp3" THEN "Download failed" ELSE "Cover download failed"])

\* variant of WaitTurn that looks at the entry and answers 'download failed'
\* when the routine has recorded an error; C27_FallbackTimesOut rejects it
WaitTurnReportsFailure(w) ==
    /\ Idle
    /\ w.pc = "wait"
    /\ LET path == IF w.mode = "mp3" THEN Mp3Path(w.track_id)
                   ELSE CoverPath(w.track_id, w.req_ext)
       IN  IF Get(download_status[w.track_id], "status", None) = "error"
           THEN reply' = FailedReply(w) /\ Drop(w)
           ELSE IF w.wait_time < max_wait
           THEN IF Exists(files, path)
                THEN reply' = Reply(w.mode, w.track_id, 200, [file |-> path]) /\ Drop(w)
                ELSE Swap(w, [w EXCEPT !.wait_time = @ + 1]) /\ UNCHANGED reply
           ELSE /\ reply' = Reply(w.mode, w.track_id, 408,
                                  [error |-> IF w.mode = "mp3" THEN "Download timeout"
                                             ELSE "Cover download timeout"])
                /\ Drop(w)
    /\ UNCHANGED <<download_status, files, execs, hist, cleanup_thread>>

\* app.py:919-927 and 968-976: the wait loop turn by turn. `while wait_time <
\* max_wait`: a turn that finds the file sends it; one that does not sleeps a
\* second and counts; after max_wait such turns the handler answers 408.
WaitTurn(w) ==
    /\ Idle
    /\ w.pc = "wait"
    /\ LET path == IF w.mode = "mp3" THEN Mp3Path(w.track_id)
                   ELSE CoverPath(w.track_id, w.req_ext)
       IN  IF w.wait_time < max_wait
           THEN IF Exists(files, path)
                THEN reply' = Reply(w.mode, w.track_id, 200, [file |-> path]) /\ Drop(w)
                ELSE Swap(w, [w EXCEPT !.wait_time = @ + 1]) /\ UNCHANGED reply
           ELSE /\ reply' = Reply(w.mode, w.track_id, 408,
                                  [error |-> IF w.mode = "mp3" THEN "Download timeout"
                                             ELSE "Cover download timeout"])
                /\ Drop(w)
    /\ UNCHANGED <<download_status, files, execs, hist, cleanup_thread>>

\* the reply of the last step has gone to the client
ReplySent ==
    /\ ~Idle
    /\ reply' = NoReply
    /\ UNCHANGED <<download_status, files, workers, execs, hist>>
    /\ UNCHANGED cleanup_thread

----------------------------------------------------------------------------
(* cleanup_old_files, app.py:22-37, and the passing of time *)

\* variant of Removed with >= for > in the comparison of line 31;
\* C15_SweepKeepsYoung rejects it
RemovedFromThreshold(fs, examined) == {p \in examined : IsFile(p) /\ fs[p] >= CleanupAge}

\* app.py:28-32  what the body of the loop removes of the names it is run for
Removed(fs, examined) == {p \in examined : IsFile(p) /\ fs[p] > CleanupAge}

SweptOf(fs, examined) == [p \in DOMAIN fs \ Removed(fs, examined) |-> fs[p]]

\* app.py:26-33  one pass over os.listdir(DOWNLOAD_DIR) that no error ends
Swept(fs) == SweptOf(fs, DOMAIN fs)

\* variant of cleanup_old_files that also drops the registry entry of a track
\* id whose mp3 it removes; C25_EntriesPersist rejects it
cleanup_old_filesPurging ==
    /\ Idle
    /\ files' = Swept(files)
    /\ files' # files
    /\ download_status' = [t \in {k \in DOMAIN download_status : Mp3Path(k) \notin Removed(files, DOMAIN files)}
                              |-> download_status[t]]
    /\ UNCHANGED <<workers, reply, execs, hist>>
    /\ UNCHANGED cleanup_thread

\* app.py:24-37  one pass of the loop. os.listdir gives the names in any
\* order. os.path.getctime or os.remove may raise for a regular file `bad`
\* (it has gone in the meantime, or may not be removed): the try statement
\* encloses the for loop, so the pass ends there with the names `before` done.
cleanup_old_files ==
    /\ Idle
    /\ \/ files' = Swept(files)
       \/ \E bad \in {p \in DOMAIN files : IsFile(p)} :
             \E before \in SUBSET (DOMAIN files \ {bad}) :
                files' = SweptOf(files, before)
    /\ files' # files
    /\ UNCHANGED <<download_status, workers, reply, execs, hist>>
    /\ UNCHANGED cleanup_thread

\* an hour passes: every file is an hour older (ages beyond the clean-up age
\* are not told apart)
Tick ==
    /\ Idle
    /\ \E p \in DOMAIN files : files[p] <= CleanupAge
    /\ files' = [p \in DOMAIN files |-> IF files[p] <= CleanupAge THEN files[p] + 1 ELSE files[p]]
    /\ UNCHANGED <<download_status, workers, reply, execs, hist>>
    /\ UNCHANGED cleanup_thread

\* app.py:24-35  one pass of the loop with the position of the thread kept:
\* os.listdir raises and nothing is examined, or the pass goes through every
\* name, or getctime or remove raises for the regular file `bad` after the
\* names `before`; the except clause of line 34 takes every such error, and
\* the thread goes on to line 37
cleanup_pass ==
    /\ Idle
    /\ cleanup_thread.pc = "try"
    /\ \/ /\ files' = files
          /\ cleanup_thread' = [pc |-> "sleep", listed |-> FALSE, examined |-> {}]
       \/ /\ files' = Swept(files)
          /\ cleanup_thread' = [pc |-> "sleep", listed |-> TRUE, examined |-> DOMAIN files]
       \/ \E bad \in {p \in DOMAIN files : IsFile(p)} :
             \E before \in SUBSET (DOMAIN files \ {bad}) :
                /\ files' = SweptOf(files, before)
                /\ cleanup_thread' = [pc |-> "sleep", listed |-> TRUE,
                                      examined |-> before \cup {bad}]
    /\ UNCHANGED <<download_status, workers, reply, execs, hist>>

\* app.py:37  time.sleep(file_cleanup_interval) returns after an hour, in
\* which every file has become an hour older, and the loop starts again
cleanup_sleep ==
    /\ Idle
    /\ cleanup_thread.pc = "sleep"
    /\ cleanup_thread' = [cleanup_thread EXCEPT !.pc = "try"]
    /\ files' = [p \in DOMAIN files |-> IF files[p] <= CleanupAge THEN files[p] + 1 ELSE files[p]]
    /\ UNCHANGED <<download_status, workers, reply, execs, hist>>

----------------------------------------------------------------------------

(* The program serving the requests of a client that gives a SoundCloud url
   and one of the track ids in `ids` *)
Step(ids) ==
    \/ \E url \in SoundCloudUrls, track_id \in ids : start_download(url, track_id)
    \/ \E track_id \in ids : download_progress(track_id)
    \/ \E url \in SoundCloudUrls, track_id \in ids : download_mp3(url, track_id)
    \/ \E url \in SoundCloudUrls, track_id \in ids, cover_ext \in ReqExts :
          download_cover(url, track_id, cover_ext)
    \/ \E w \in Live : WorkerStep(w)
    \/ \E w \in Live : WaitLoop(w)
    \/ cleanup_old_files
    \/ Tick

\* Jobs of different track ids share no entry and no file, so the claims about
\* one job are checked with the requests of one track id, issued in any order
\* until MaxExec executions of the routine have begun
Next ==
    \/ Step(JobIds)
    \/ ReplySent

Spec == Init /\ [][Next]_vars

\* The same program with its threads scheduled fairly: a handler that has made
\* its reply returns it, and an execution of the worker routine that can take
\* its next step again and again takes it (every call it makes returns or
\* raises; in the model a step waits while a reply is being returned, hence
\* strong fairness)
SpecLive ==
    /\ Spec
    /\ WF_vars(ReplySent)
    /\ SF_vars(\E w \in Live : WorkerStep(w))

\* Two download jobs with different track ids, each started once, polled while
\* they run
NextPair ==
    \/ \E track_id \in TrackIds :
          /\ track_id \notin DOMAIN download_status
          /\ \E url \in SoundCloudUrls : start_download(url, track_id)
    \/ \E track_id \in TrackIds : download_progress(track_id)
    \/ \E w \in Live : WorkerStep(w)
    \/ cleanup_old_files
    \/ Tick
    \/ ReplySent

SpecPair == Init /\ [][NextPair]_vars

\* The requests of any client, the ones the handlers turn down and the
\* metadata fetch included, and the executions they start, within the hour in
\* which no file is old enough to be cleaned up
NextFront ==
    \/ \E r \in StartRequests(JobIds) : start_download(r[1], r[2])
    \/ \E url \in Urls, track_id \in JobIds : download(url, track_id)
    \/ \E track_id \in JobIds : download_progress(track_id)
    \/ \E url \in Urls, track_id \in JobIds : download_mp3(url, track_id)
    \/ \E url \in Urls, track_id \in JobIds, cover_ext \in ReqExts :
          download_cover(url, track_id, cover_ext)
    \/ \E w \in Live : WorkerStep(w)
    \/ \E w \in Live : WaitLoop(w)
    \/ ReplySent

SpecFront == Init /\ [][NextFront]_vars

\* The file requests with the turns of their wait loops counted, beside the
\* jobs that start-download requests start, within the hour in which no file
\* is old enough to be cleaned up
NextWait ==
    \/ \E url \in SoundCloudUrls, track_id \in JobIds : start_download(url, track_id)
    \/ \E url \in SoundCloudUrls, track_id \in JobIds : download_mp3(url, track_id)
    \/ \E url \in SoundCloudUrls, track_id \in JobIds, cover_ext \in ReqExts :
          download_cover(url, track_id, cover_ext)
    \/ \E w \in Live : WorkerStep(w)
    \/ \E w \in Live : WaitTurn(w)
    \/ ReplySent

SpecWait == Init /\ [][NextWait]_vars

\* The extension inference of the worker and of the metadata fetch, applied
\* to thumbnail urls made of a stem, a last segment and a query string
UrlStems == {<<"x">>, <<"x", ".", "y">>, <<"x", "?", "y">>}
UrlSegments ==
    {<<"j","p","g">>, <<"J","P","G">>, <<"j","p","e","g">>, <<"J","p","e","g">>,
     <<"p","n","g">>, <<"P","N","G">>, <<"P","n","g">>, <<"w","e","b","p">>,
     <<"W","E","B","P">>, <<"b","i","n">>, <<"j","p">>, <<>>}
UrlQueries == {<<>>, <<"?", "s">>, <<"?", "s", ".", "j", "p", "g">>}
ThumbnailUrls ==
    {stem \o <<".">> \o seg \o query :
        stem \in UrlStems, seg \in UrlSegments, query \in UrlQueries}
    \cup {stem \o query : stem \in UrlStems, query \in UrlQueries}

InitInfer ==
    /\ download_status = EmptyDict
    /\ files = EmptyDict
    /\ workers = EmptyBag
    /\ reply \in {[kind |-> "thumbnail", url |-> url] : url \in ThumbnailUrls}
    /\ execs = [t \in TrackIds |-> 0]
    /\ hist = [t \in TrackIds |-> <<>>]
    /\ cleanup_thread = Sleeping

\* app.py:82-86 and 139-145 on the thumbnail url drawn
Infer ==
    /\ reply.kind = "thumbnail"
    /\ reply' = [kind |-> "cover_ext", url |-> reply.url,
                 worker |-> InferCoverExt(reply.url),
                 metadata |-> MetadataCoverExt(reply.url)]
    /\ UNCHANGED <<download_status, files, workers, execs, hist>>
    /\ UNCHANGED cleanup_thread

NextInfer == Infer

SpecInfer == InitInfer /\ [][NextInfer]_vars

\* The file names that the places of the program which name a file give for
\* one track id and one thumbnail url
InitNaming ==
    /\ download_status = EmptyDict
    /\ files = EmptyDict
    /\ workers = EmptyBag
    /\ reply \in {[kind |-> "job", track_id |-> track_id, url |-> url] :
                     track_id \in TrackIds, url \in ThumbnailUrls}
    /\ execs = [t \in TrackIds |-> 0]
    /\ hist = [t \in TrackIds |-> <<>>]
    /\ cleanup_thread = Sleeping

\* app.py:88 (the cover the worker writes) and 100 (the mp3 it reports), 865
\* (the mp3 the poll looks up), 895-896 (the mp3 download_mp3 sends), 948-949
\* (the cover download_cover sends, for the cover_ext of the metadata fetch,
\* 139-145, on the same thumbnail url)
Naming ==
    /\ reply.kind = "job"
    /\ LET track_id == reply.track_id
           worker == [Worker(track_id, "async", None) EXCEPT !.thumbnail_url = reply.url,
                         !.cover_ext = InferCoverExt(reply.url),
                         !.cover_path = CoverPath(track_id, InferCoverExt(reply.url))]
           entry == CompletedEntry(worker, EmptyDict)
           cover_ext == MetadataCoverExt(reply.url)
       IN  reply' = [kind |-> "names", track_id |-> track_id, url |-> reply.url,
                     reported_mp3 |-> entry.mp3_path,
                     written_cover |-> entry.cover_path,
                     polled_mp3 |-> Mp3Path(track_id),
                     served_mp3 |-> Mp3Path(track_id),
                     cover_ext |-> cover_ext,
                     served_cover |-> CoverPath(track_id, cover_ext)]
    /\ UNCHANGED <<download_status, files, workers, execs, hist, cleanup_thread>>

NextNaming == Naming

SpecNaming == InitNaming /\ [][NextNaming]_vars

\* The clean-up thread alone, on a DOWNLOAD_DIR that holds files of any age
\* and a directory, at the moments of its passes
StorePaths == {Mp3Path("a"), CoverPath("a", <<"P","N","G">>), Mp3Path("b"), SubDir}

InitSweep ==
    /\ download_status = EmptyDict
    /\ files \in [StorePaths -> 0..(CleanupAge + 1)]
    /\ workers = EmptyBag
    /\ reply = NoReply
    /\ execs = [t \in TrackIds |-> 0]
    /\ hist = [t \in TrackIds |-> <<>>]
    /\ cleanup_thread = Sleeping

NextSweep == cleanup_old_files

SpecSweep == InitSweep /\ [][NextSweep]_vars

\* The clean-up thread in its loop from its start (app.py:40-41), scheduled
\* fairly, on a DOWNLOAD_DIR that holds files of any age and a directory
InitSweepLoop ==
    /\ download_status = EmptyDict
    /\ files \in [StorePaths -> 0..(CleanupAge + 1)]
    /\ workers = EmptyBag
    /\ reply = NoReply
    /\ execs = [t \in TrackIds |-> 0]
    /\ hist = [t \in TrackIds |-> <<>>]
    /\ cleanup_thread = [pc |-> "try", listed |-> FALSE, examined |-> {}]

NextSweepLoop ==
    \/ cleanup_pass
    \/ cleanup_sleep

SpecSweepLoop ==
    /\ InitSweepLoop
    /\ [][NextSweepLoop]_vars
    /\ WF_vars(cleanup_pass)
    /\ WF_vars(cleanup_sleep)

----------------------------------------------------------------------------
(* Properties *)

Terminal == {"completed", "error"}

\* the routine is running for track_id: begun and not yet returned
Running(w, track_id) == w.track_id = track_id /\ w.pc # "wait"

\* the step is one of execution w: its record leaves the bag or changes
StepOf(w) == CopiesIn(w, workers') < CopiesIn(w, workers)

\* C1: once an entry's status is completed or error, no step changes that
\* status (terminal states are absorbing).
C1_TerminalAbsorbing ==
    [][\A t \in DOMAIN download_status :
          download_status[t].status \in Terminal
            => download_status'[t].status = download_status[t].status]_vars

\* C2: in every reachable state an entry whose status is completed has
\* progress 100.
C2_CompletedIs100 ==
    \A t \in DOMAIN download_status :
        download_status[t].status = "completed" => download_status[t].progress = 100

\* C3: in every reachable state an entry whose status is error has progress 0
\* and a non-empty error message.
C3_ErrorIsZero ==
    \A t \in DOMAIN download_status :
        download_status[t].status = "error"
          => /\ download_status[t].progress = 0
             /\ Get(download_status[t], "error", "") # ""

\* C4: across two consecutive states in which an entry's status is
\* downloading, its progress does not decrease.
C4_ProgressMonotone ==
    [][\A t \in DOMAIN download_status :
          /\ download_status[t].status = "downloading"
          /\ download_status'[t].status = "downloading"
          => download_status'[t].progress >= download_status[t].progress]_vars

\* the worker routine has been begun once for track_id and has ended in completed
OneRunCompleted(t) ==
    /\ t \in DOMAIN download_status
    /\ execs[t] = 1
    /\ download_status[t].status = "completed"

Has(h, v) == \E i \in 1..Len(h) : h[i] = v

\* C5: the entry of a job driven by exactly one execution that ends in
\* completed has taken the progress values 0, 25, 60, (85), 100 in that order,
\* with 85 exactly when there was a thumbnail url and its cover was fetched and
\* written.
C5_ProgressSequence ==
    \A t \in TrackIds :
        OneRunCompleted(t)
          => /\ hist[t] \in {<<0, 25, 60, 100>>, <<0, 25, 60, 85, 100>>}
             /\ Has(hist[t], 85) <=> /\ download_status[t].thumbnail_url # None
                                     /\ download_status[t].cover_path # None

C5_Witness ==
    \E t \in TrackIds : OneRunCompleted(t) /\ Has(hist[t], 85)

\* C6: while the worker spawned by an accepted start_download has not made
\* its first registry update, a progress poll for its track id reports status
\* starting and progress 0.
C6_StartingBeforeWorker ==
    \A w \in Live :
        w.mode = "async" /\ w.pc = "L47"
          => LET p == ProgressPayload(download_status, files, w.track_id)
             IN  p.status = "starting" /\ p.progress = 0

\* C7: a progress poll for a track id without an entry answers status
\* not_found with progress 0, not a fault, and creates no entry.
C7_UnknownIsNotFound ==
    [][\A t \in TrackIds :
          /\ reply'.kind = "download_progress"
          /\ reply'.track_id = t
          /\ t \notin DOMAIN download_status
          => /\ reply'.code = 200
             /\ reply'.body = [status |-> "not_found", progress |-> 0]
             /\ download_status' = download_status]_vars

C7_Witness ==
    /\ reply.kind = "download_progress"
    /\ reply.track_id \notin DOMAIN download_status
    /\ reply.body.status = "not_found"

\* the cover fetch of execution w has failed after a successful extraction
CoverFailed(w) == w.pc = "L103" /\ w.thumbnail_url # None /\ w.cover_path = None

\* C8 (as claimed): when the extraction succeeded and the cover fetch failed,
\* the job ends completed with progress 100, primaryAvailable true and
\* coverAvailable false.
C8_CoverFailureClaimed ==
    [][\A w \in Live :
          CoverFailed(w) /\ StepOf(w)
          => LET e == download_status'[w.track_id]
             IN  /\ e.status = "completed" /\ e.progress = 100
                 /\ e.mp3_available = "true"
                 /\ e.cover_available = "false"]_vars

\* C8 (amended): a failed cover fetch writes nothing to the registry, and the
\* completion write that follows it records status completed, progress 100,
\* coverAvailable null, and primaryAvailable true exactly when the audio file
\* is in the File Store at that moment.
C8_CoverFailureIsolated ==
    [][\A w \in Live :
          /\ (w.pc = "L89" /\ StepOf(w)) => download_status' = download_status
          /\ (CoverFailed(w) /\ StepOf(w))
               => LET e == download_status'[w.track_id]
                  IN  /\ e.status = "completed" /\ e.progress = 100
                      /\ e.cover_available = "null"
                      /\ e.mp3_available = JsonBool(Exists(files, Mp3Path(w.track_id)))]_vars

C8_Witness ==
    \E t \in DOMAIN download_status :
        /\ download_status[t].status = "completed"
        /\ download_status[t].thumbnail_url # None
        /\ download_status[t].cover_path = None
        /\ download_status[t].mp3_available = "false"

\* the entries a job of track id t ends with when it runs alone
SoloCovers(t, u) ==
    {<<None, None, "null">>}
    \cup IF u = None THEN {}
         ELSE {<<CoverPath(t, InferCoverExt(u)), InferCoverExt(u), a>> : a \in {"true", "false"}}

SoloFinal(t) ==
    {[status |-> "error", progress |-> 0, error |-> msg] : msg \in ErrMsgs \cup InfoErrMsgs}
    \cup
    UNION {{[status |-> "completed", progress |-> 100, title |-> title,
             mp3_path |-> Mp3Path(t), cover_path |-> c[1], cover_ext |-> c[2],
             thumbnail_url |-> u, mp3_available |-> m, cover_available |-> c[3]] :
               title \in Titles, m \in {"true", "false"}, c \in SoloCovers(t, u)} :
           u \in Thumbnails}

\* the job of track id t has ended
Ended(t) ==
    /\ t \in DOMAIN download_status
    /\ \A w \in Live : w.track_id # t

\* C9: a step of the worker of one job leaves the entry of every other track
\* id as it was, and a job that ran beside another ends with an entry and a
\* progress history of a job that ran alone.
C9_JobsIndependent ==
    /\ [][\A w \in Live :
             StepOf(w)
             => \A t \in TrackIds \ {w.track_id} :
                   /\ t \in DOMAIN download_status' <=> t \in DOMAIN download_status
                   /\ t \in DOMAIN download_status => download_status'[t] = download_status[t]]_vars
    /\ [](\A t \in TrackIds :
             Ended(t)
             => /\ download_status[t] \in SoloFinal(t)
                /\ hist[t] \in {<<0, 25, 0>>, <<0, 25, 60, 0>>,
                                <<0, 25, 60, 100>>, <<0, 25, 60, 85, 100>>})

C9_Witness ==
    /\ Ended("a") /\ download_status["a"].status = "completed"
    /\ Ended("b") /\ download_status["b"].status = "error"

\* C10: an entry has a single writer: no two executions of the worker routine
\* for the same track id overlap.
C10_SingleWriter ==
    \A t \in TrackIds :
        \A w1, w2 \in Live :
            Running(w1, t) /\ Running(w2, t) => w1 = w2 /\ CopiesIn(w1, workers) = 1

\* the step takes execution w on to a later statement of the routine
Continues(w) ==
    \E w2 \in BagToSet(workers') :
        /\ w2.track_id = w.track_id /\ w2.mode = w.mode
        /\ w2.pc \notin {w.pc, "wait"}
        /\ CopiesIn(w2, workers') > CopiesIn(w2, workers)

\* C11: a step of a worker execution that does not go on to a later statement
\* of the routine is its last statement or a failure, and a failure is caught
\* inside the routine: the entry becomes exactly status error, progress 0 and
\* the message of the failure, the thread ends or the calling handler goes on
\* to its wait loop, and no reply is made of it.
C11_FailureCaught ==
    [][\A w \in Live :
          (StepOf(w) /\ w.pc \notin {"wait", "L103"} /\ ~Continues(w))
          => /\ download_status'[w.track_id] \in
                   {ErrorEntry(msg) : msg \in ErrMsgs \cup InfoErrMsgs}
             /\ reply' = NoReply
             /\ IF w.mode = "async"
                THEN workers' = workers (-) SetToBag({w})
                ELSE \E w2 \in BagToSet(workers') :
                        /\ w2.pc = "wait" /\ w2.track_id = w.track_id /\ w2.mode = w.mode
                        /\ workers' = (workers (-) SetToBag({w})) (+) SetToBag({w2})]_vars

C11_Witness ==
    \E w \in Live :
        /\ w.pc = "wait"
        /\ w.track_id \in DOMAIN download_status
        /\ download_status[w.track_id] \in {ErrorEntry(msg) : msg \in InfoErrMsgs}

\* the entry of track id t is there and not in a terminal state
InFlight(t) ==
    /\ t \in DOMAIN download_status
    /\ download_status[t].status \in {"starting", "downloading"}

\* C12: with fair scheduling, an entry that is in starting or downloading (as
\* it is once a start-download request has been accepted) leads to an entry
\* in completed or error.
C12_EventuallyTerminal ==
    \A t \in JobIds :
        InFlight(t) ~> (t \in DOMAIN download_status /\ download_status[t].status \in Terminal)

C12_Witness ==
    \E t \in TrackIds :
        /\ Ended(t)
        /\ execs[t] = MaxExec
        /\ download_status[t].status \in Terminal

\* a reply to a progress poll that found the entry completed is being returned
PollOfCompleted ==
    /\ reply.kind = "download_progress"
    /\ reply.body.status = "completed"

\* C13 (as claimed): a progress poll of a completed entry reports
\* primaryAvailable and coverAvailable as the booleans that say whether the
\* mp3 and the cover are in the File Store at the moment of the poll, and the
\* status stays completed.
C13_AvailabilityClaimed ==
    PollOfCompleted
    => LET t == reply.track_id
           cover_path == reply.body.cover_path
       IN  /\ download_status[t].status = "completed"
           /\ reply.body.mp3_available = JsonBool(Exists(files, Mp3Path(t)))
           /\ reply.body.cover_available = JsonBool(cover_path # None /\ Exists(files, cover_path))

\* C13 (amended): a progress poll of a completed entry reports
\* primaryAvailable as whether the mp3 is in the File Store at the moment of
\* the poll, and coverAvailable as null when the entry records no cover path
\* and otherwise as whether the file of that path is in the File Store; the
\* entry stays as it was, status completed.
C13_AvailabilityRechecked ==
    PollOfCompleted
    => LET t == reply.track_id
           cover_path == reply.body.cover_path
       IN  /\ download_status[t].status = "completed"
           /\ cover_path = download_status[t].cover_path
           /\ reply.body.mp3_available = JsonBool(Exists(files, Mp3Path(t)))
           /\ reply.body.cover_available =
                 IF cover_path = None THEN "null" ELSE JsonBool(Exists(files, cover_path))

\* the poll contradicts what the worker stored: the files have been cleaned up
C13_Witness ==
    /\ PollOfCompleted
    /\ download_status[reply.track_id].mp3_available = "true"
    /\ download_status[reply.track_id].cover_available = "true"
    /\ reply.body.mp3_available = "false"
    /\ reply.body.cover_available = "false"

\* the step is a pass of the clean-up thread that has removed something
SweepStep == DOMAIN files' # DOMAIN files /\ DOMAIN files' \subseteq DOMAIN files

\* the regular files older than the clean-up age
OverAge(fs) == {p \in DOMAIN fs : IsFile(p) /\ fs[p] > CleanupAge}

\* C14: after a pass of the clean-up thread no regular file that was in
\* DOWNLOAD_DIR at the start of the pass with an age above one hour remains.
C14_SweepRemovesOld ==
    [][SweepStep => OverAge(files) \cap DOMAIN files' = {}]_vars

\* C15: a pass of the clean-up thread removes only regular files whose age
\* exceeds one hour: a file of age exactly one hour or less and a directory
\* stay.
C15_SweepKeepsYoung ==
    [][\A p \in DOMAIN files :
          p \notin DOMAIN files' => IsFile(p) /\ files[p] > CleanupAge]_vars

\* a pass has removed a file and has left a file of age exactly one hour and
\* a directory older than that (under SpecSweep the ages are those of the
\* pass)
C15_Witness ==
    /\ DOMAIN files # StorePaths
    /\ OverAge(files) = {}
    /\ \E p \in DOMAIN files : IsFile(p) /\ files[p] = CleanupAge
    /\ SubDir \in DOMAIN files /\ files[SubDir] > CleanupAge

\* C16: an error on one file does not end the pass: of the regular files
\* above one hour at most the one the error was on remains.
C16_ScanContinues ==
    [][SweepStep => Cardinality(OverAge(files) \cap DOMAIN files') <= 1]_vars

\* the part of a url after its final "." (all of it when it has none) and
\* before any "?" in that part
AfterFinalDot(url) ==
    LET dots == {i \in 1..Len(url) : url[i] = "."}
        from == IF dots = {} THEN 1 ELSE 1 + CHOOSE i \in dots : \A j \in dots : j <= i
    IN  [i \in 1..(Len(url) - from + 1) |-> url[from + i - 1]]

Segment(url) ==
    LET rest == AfterFinalDot(url)
        marks == {i \in 1..Len(rest) : rest[i] = "?"}
        upto == IF marks = {} THEN Len(rest) ELSE (CHOOSE i \in marks : \A j \in marks : i <= j) - 1
    IN  [i \in 1..upto |-> rest[i]]

\* C17 (as claimed): the inferred extension is jpg, jpeg, png or webp, in
\* lower case, when the segment of the url matches one of them whatever its
\* case (x.PNG?s gives png), and jpg otherwise, in the worker and in the
\* metadata fetch.
C17_InferLowercases ==
    reply.kind = "cover_ext"
    => LET expected == IF Lower(Segment(reply.url)) \in RecognisedExts
                       THEN Lower(Segment(reply.url)) ELSE <<"j","p","g">>
       IN  reply.worker = expected /\ reply.metadata = expected

\* C17 (amended): the inferred extension is the segment of the url as it is
\* written there when its lower case is jpg, jpeg, png or webp (x.PNG?s gives
\* PNG), and jpg otherwise, in the worker and in the metadata fetch.
C17_InferKeepsCase ==
    reply.kind = "cover_ext"
    => LET expected == IF Lower(Segment(reply.url)) \in RecognisedExts
                       THEN Segment(reply.url) ELSE <<"j","p","g">>
       IN  reply.worker = expected /\ reply.metadata = expected

C17_Witness ==
    /\ reply.kind = "cover_ext"
    /\ reply.url = UrlPng
    /\ reply.worker = <<"P","N","G">>
    /\ reply.metadata = <<"P","N","G">>

\* the file a request of the kind m for track id t asks for
Requested(m, t) ==
    IF m = "mp3" THEN {Mp3Path(t)} ELSE {CoverPath(t, cover_ext) : cover_ext \in ReqExts}

\* the step starts an execution of the worker routine inside the handler of
\* a file request of the kind m for track id t
Fallback(m, t) ==
    \E w \in BagToSet(workers') :
        /\ w.mode = m /\ w.track_id = t /\ w.pc = "L47"
        /\ CopiesIn(w, workers') > CopiesIn(w, workers)

\* the step is the handler of a file request of the kind m for track id t,
\* up to its reply or its call of the worker routine
RetrievalStep(m, t) ==
    \/ reply = NoReply /\ reply' # NoReply /\ reply'.kind = m /\ reply'.track_id = t
          /\ workers' = workers
    \/ Fallback(m, t)

StatusOf(t) == IF t \in DOMAIN download_status THEN download_status[t].status ELSE "none"

MetadataStep == reply = NoReply /\ reply' # NoReply /\ reply'.kind = "download"

\* the step puts an entry for track id t into the registry
Created(t) == t \notin DOMAIN download_status /\ t \in DOMAIN download_status'

IsSoundCloudUrl(url) == Len(url) >= 2 /\ url[2] = "soundcloud.com"

\* the step is the handler of a start-download request
StartStep == reply = NoReply /\ reply' # NoReply /\ reply'.kind = "start_download"

\* C20: a start-download request without url, without track id or with a url
\* that is not a SoundCloud url is answered with a failure, and it leaves the
\* registry and the running executions as they are.
C20_BadStartRejected ==
    [][(/\ StartStep
        /\ \/ reply'.url = NoUrl
           \/ reply'.track_id = ""
           \/ ~IsSoundCloudUrl(reply'.url))
       => /\ reply'.body.success = FALSE
          /\ download_status' = download_status
          /\ workers' = workers]_vars

PollStatuses == {"not_found", "starting", "downloading", "completed", "error"}

WellFormed(payload) ==
    /\ Get(payload, "status", "") \in PollStatuses
    /\ Get(payload, "progress", -1) \in 0..100

\* C21: in every reachable state, whatever the executions of the worker
\* routine have written so far, the payload of a progress poll for any track
\* id has a status in not_found, starting, downloading, completed, error and
\* an integer progress from 0 to 100, and a poll that is answered is answered
\* 200 with such a payload.
C21_PollWellFormed ==
    /\ \A t \in TrackIds : WellFormed(ProgressPayload(download_status, files, t))
    /\ reply.kind = "download_progress" => reply.code = 200 /\ WellFormed(reply.body)

\* a poll is answered between two statements of an execution of the routine,
\* after the entry was in error
C21_Witness ==
    /\ reply.kind = "download_progress"
    /\ reply.body.status = "downloading" /\ reply.body.progress = 85
    /\ execs[reply.track_id] = MaxExec
    /\ \E w \in Live : w.track_id = reply.track_id /\ w.pc = "L103"

\* execution w is inside the call that writes the file of that path: the
\* Extractor for the mp3 (app.py:66-67), the cover fetch for the cover
\* (app.py:88-93)
Writing(w, path) ==
    \/ w.pc = "L67" /\ path = Mp3Path(w.track_id)
    \/ w.pc = "L89" /\ path = CoverPath(w.track_id, InferCoverExt(w.thumbnail_url))

WrittenPaths ==
    {Mp3Path(t) : t \in TrackIds}
    \cup {CoverPath(t, InferCoverExt(u)) : t \in TrackIds, u \in Thumbnails \ {None}}

\* C22: no file is being written by two executions of the worker routine at
\* once, whether they run in a worker thread or in the handler of a file
\* request.
C22_OneWriterPerFile ==
    \A path \in WrittenPaths :
        \A w1, w2 \in Live :
            Writing(w1, path) /\ Writing(w2, path) => w1 = w2 /\ CopiesIn(w1, workers) = 1

\* the statements of the routine up to the return of the Extractor call
UpToExtract == {"L47", "L64", "L67"}

\* C23: a step of an execution that has not yet come back from the Extractor
\* writes no progress of 60 or more; the step before the Extractor call sets
\* progress 25 and the call comes next; a call that raises writes the error
\* entry (progress 0) and ends the routine. For an entry driven by one
\* execution: while the execution has not come back from the Extractor the
\* entry shows less than 60, inside the call it shows downloading/25, and
\* after a call that raised the progress values seen are 0, 25, 0.
C23_CheckpointsAroundExtract ==
    /\ [][\A w \in Live :
             (StepOf(w) /\ w.pc \in UpToExtract)
             => LET e == download_status'[w.track_id]
                IN  /\ download_status' = download_status \/ e.progress < 60
                    /\ w.pc = "L64"
                         => /\ e.progress = 25
                            /\ \E w2 \in BagToSet(workers') :
                                  w2 = [w EXCEPT !.pc = "L67"]
                    /\ (w.pc = "L67" /\ ~Continues(w))
                         => e \in {ErrorEntry(msg) : msg \in ErrMsgs}]_vars
    /\ [](\A t \in TrackIds :
             (t \in DOMAIN download_status /\ execs[t] = 1)
             => /\ \A w \in Live :
                     w.track_id = t
                     => /\ w.pc \in UpToExtract => download_status[t].progress < 60
                        /\ w.pc = "L67" => download_status[t] = [status |-> "downloading", progress |-> 25]
                /\ (Ended(t) /\ download_status[t] \in {ErrorEntry(msg) : msg \in ErrMsgs})
                     => hist[t] = <<0, 25, 0>>
                /\ Has(hist[t], 60) => SubSeq(hist[t], 1, 3) = <<0, 25, 60>>)

\* the Extractor call of the one execution of a job has raised
C23_Witness ==
    \E t \in TrackIds :
        /\ Ended(t) /\ execs[t] = 1
        /\ download_status[t] \in {ErrorEntry(msg) : msg \in ErrMsgs}
        /\ hist[t] = <<0, 25, 0>>

\* passes of the clean-up thread and sleeps between them recur for ever
SweepRecurs ==
    /\ []<>(cleanup_thread.pc = "try")
    /\ []<>(cleanup_thread.pc = "sleep")

\* C24: whatever errors the passes of the clean-up thread meet, a further
\* pass always comes, and (when the directory can be listed again and again)
\* every name that stays in DOWNLOAD_DIR is examined by a pass again and
\* again.
C24_SweepPerpetual ==
    /\ SweepRecurs
    /\ \A p \in StorePaths :
          []<>(cleanup_thread.listed)
            => []<>(p \notin DOMAIN files \/ p \in cleanup_thread.examined)

\* C25: an entry of the registry is never taken out: a track id that has an
\* entry has one after every step (of a worker, a failing one included, of a
\* file request, of the clean-up thread), and a progress poll for it is not
\* answered not_found.
C25_EntriesPersist ==
    [][/\ DOMAIN download_status \subseteq DOMAIN download_status'
       /\ \A t \in DOMAIN download_status :
             (reply = NoReply /\ reply'.kind = "download_progress" /\ reply'.track_id = t)
             => reply'.body.status # "not_found"]_vars

\* a job has completed, its files have been cleaned up, and a poll still
\* finds its entry
C25_Witness ==
    /\ reply.kind = "download_progress"
    /\ reply.body.status = "completed"
    /\ reply.body.mp3_available = "false"
    /\ download_status[reply.track_id].mp3_available = "true"
    /\ files = EmptyDict

Awaited(w) == IF w.mode = "mp3" THEN Mp3Path(w.track_id) ELSE CoverPath(w.track_id, w.req_ext)

\* C27: when the Extractor call raises in the routine that the handler of a
\* file request runs itself, the routine records the error entry and returns
\* to the handler, which makes no reply of it and enters its wait loop; a
\* turn of the loop that does not find the file counts one more second, and
\* after 30 such turns the handler answers 408; no turn answers 500
\* ('download failed'), and no turn changes the registry.
C27_FallbackTimesOut ==
    [][\A w \in Live :
          (w.mode # "async" /\ StepOf(w))
          => /\ (w.pc = "L67" /\ ~Continues(w))
                  => /\ download_status'[w.track_id] \in {ErrorEntry(msg) : msg \in ErrMsgs}
                     /\ reply' = NoReply
                     /\ \E w2 \in BagToSet(workers') :
                           /\ w2.pc = "wait" /\ w2.wait_time = 0
                           /\ w2.track_id = w.track_id /\ w2.mode = w.mode
                           /\ CopiesIn(w2, workers') > CopiesIn(w2, workers)
             /\ w.pc = "wait"
                  => /\ download_status' = download_status
                     /\ IF w.wait_time < max_wait /\ Exists(files, Awaited(w))
                        THEN reply' = Reply(w.mode, w.track_id, 200, [file |-> Awaited(w)])
                        ELSE IF w.wait_time < max_wait
                        THEN /\ reply' = NoReply
                             /\ CopiesIn([w EXCEPT !.wait_time = @ + 1], workers')
                                  > CopiesIn([w EXCEPT !.wait_time = @ + 1], workers)
                        ELSE /\ w.wait_time = 30
                             /\ reply'.kind = w.mode /\ reply'.code = 408]_vars

\* the only execution for a track id was the one of a file request, its
\* Extractor call raised, and the request has been answered 408
C27_Witness ==
    /\ reply.kind = "mp3" /\ reply.code = 408
    /\ execs[reply.track_id] = 1
    /\ download_status[reply.track_id] \in {ErrorEntry(msg) : msg \in ErrMsgs}
    /\ files = EmptyDict

\* the step is the handler of a progress poll
PollStep == reply = NoReply /\ reply' # NoReply /\ reply'.kind = "download_progress"

\* C28: a progress poll leaves the registry as it was, whatever the track id
\* and the entries (the availability flags it recomputes go into the payload
\* it returns only), and it changes no file and no running execution.
C28_PollChangesNothing ==
    [][PollStep
       => /\ download_status' = download_status
          /\ files' = files
          /\ workers' = workers]_vars

\* a poll has returned an availability flag that differs from the one in the
\* entry, which is as the worker stored it
C28_Witness ==
    /\ PollOfCompleted
    /\ reply.body.mp3_available = "false"
    /\ reply.body.cover_available = "true"
    /\ download_status[reply.track_id].mp3_available = "true"
    /\ Exists(files, download_status[reply.track_id].cover_path)

====
